---- MODULE Spec2Model ----
(***************************************************************************)
(* City Pulse: the real-time incident pipeline                             *)
(* (streaming/realtime_processor.py), its producer side (publish_incident) *)
(* and the local simulator's priority fan-out                              *)
(* (local_dev/realtime_simulator.py).                                      *)
(*                                                                         *)
(* Priority scores are floats in the source; here they are tenths         *)
(* (8.0 is 80), so every comparison of the source is an integer one.       *)
(***************************************************************************)
EXTENDS Integers, Sequences, FiniteSets, Bags, TLC

\* ------------------------------------------------------------------ bounds
\* Messages ever published to incident-stream.
MaxPublished == 2
\* Deliveries the bus makes in one behaviour (first deliveries and redeliveries).
MaxDeliveries == 2
\* FlowControl(max_messages=...): callbacks running at once (100 in the source).
MaxInFlight == 2

\* ------------------------------------------------------- program constants
\* publish_incident: agent tasks are triggered from this priority on.
AGENT_TRIGGER_PRIORITY == 80
\* process_incident_stream: notifications are sent from this priority on.
NOTIFY_PRIORITY == 70

\* ------------------------------------------------------------------ inputs
IncidentIds == {"X1", "X2"}
Areas == {"Zone-A", "Zone-B"}
TerminalStatuses == {"resolved", "false_alarm"}

\* 'timestamp', the time of the event, is an ISO string: here its age in days
\* at processing time and its zone designator ("Z", "+00:00" or "none").
Timestamp(age, zone) == [age |-> age, zone |-> zone]

Incident(id, p, status, area) ==
    [id |-> id, priority_score |-> p, event_status |-> status,
     area_category |-> area, assigned_department |-> "BBMP",
     timestamp |-> Timestamp(1, "Z")]

\* The incidents a producer publishes (the fields the pipeline's control flow
\* and writes depend on): priorities on each side of both thresholds, open and
\* terminal statuses ("verified" is the open status between reported and
\* in_progress), two ids in one area and one id in two statuses.
Incidents ==
    { Incident("X1", 85, "reported", "Zone-A"),
      Incident("X1", 85, "resolved", "Zone-A"),
      Incident("X2", 65, "reported", "Zone-A"),
      Incident("X2", 65, "verified", "Zone-A"),
      Incident("X2", 75, "false_alarm", "Zone-B") }

\* The incidents publish_incident is called with when its routing is looked
\* at on its own: the former, and priorities at and next to the thresholds.
RoutedIncidents ==
    Incidents \cup { Incident("X1", 80, "reported", "Zone-A"),
                     Incident("X2", 79, "reported", "Zone-A"),
                     Incident("X2", 60, "reported", "Zone-B"),
                     Incident("X2", 59, "reported", "Zone-B") }

\* What a message body can be: a well-formed incident, bytes that are not JSON,
\* JSON without 'description' (read at the embedding text), JSON without
\* 'event_type' (read when the row is prepared).
PayloadKinds == {"ok", "bad_json", "no_description", "no_event_type"}
MalformedKinds == PayloadKinds \ {"ok"}

\* The incident a malformed body was meant to carry.
MalformedCarrier == Incident("X1", 85, "reported", "Zone-A")

Workers == 1..MaxInFlight
NoWorker == 0
NoMsg == 0
NoDoc == [ui_status |-> "none"]

VARIABLES
    \* --- the bus
    incident_stream,    \* sequence of messages published to incident-stream
    lease,              \* message index -> the worker holding its lease, or NoWorker
    acked,              \* message indices the bus has seen acknowledged
    deliveries,         \* deliveries made so far
    agent_topic,        \* bag of tasks on agent-tasks
    notification_topic, \* bag of messages on notification-stream
    analytics_topic,    \* bag of events on analytics-stream
    \* --- the stores
    embeddings_table,   \* bag of rows (the archive)
    realtime_table,     \* bag of rows (the rolling table)
    fs_incidents,       \* incident id -> live document, or NoDoc
    area_stats,         \* area -> [incident_count, priority_sum]
    \* --- one callback invocation per worker
    pc,                 \* worker -> where its callback stands
    cur,                \* worker -> the message index it handles (the last one, when idle)
    eff,                \* worker -> the effects its current (last) delivery has had
    failedAt,           \* worker -> the step that raised in that delivery, or "none"
    outcome,            \* worker -> "ack" or "nack" once that delivery called it
    sawTerminal,        \* worker -> at delivery, the stores held the id in a terminal status
    \* --- the producer
    publish_result,     \* what the last publish_incident call did: "ok" or "raised"
    \* --- the local simulator
    dataset,            \* self.incidents, the loaded dataset
    feed_index,         \* incident_index of feed_incidents
    incident_queue,     \* self.incident_queue
    sim_incidents,      \* table incidents: the set of its rows
    agent_activities,   \* table agent_activities: bag of rows
    notifications,      \* table notifications: bag of rows
    stats,              \* self.stats
    sim_pc,             \* process_incidents: "get" or "wait"
    sim_cur,            \* the incident process_incidents is handling
    pool,               \* the executor's tasks, in submission order
    tasks_done,         \* calls of incident_queue.task_done()
    sim_faults,         \* raises and timeouts so far
    \* --- the agent orchestrator
    task_pc,            \* agent worker -> where its callback stands
    task_cur,           \* agent worker -> the task message it handles (the last one)
    task_holds,         \* agent worker -> it holds the lease of that message
    task_acked,         \* task messages the bus has seen acknowledged
    task_deliveries,    \* deliveries of task messages so far
    task_result,        \* agent worker -> what the handler of its last delivery reported
    task_outcome,       \* agent worker -> "ack" or "nack" once that delivery called it
    task_logged,        \* agent worker -> ActivityRecords that delivery wrote
    fs_agent_activities, \* collection agent_activities: bag of documents
    fs_agent_docs,      \* the agents' result collections: bag of documents
    task_faults,        \* failed remote calls of the handlers so far
    \* --- flow control of a streaming pull
    flow_sub,           \* the subscription pulled from
    flow_backlog,       \* its messages waiting for delivery
    flow_outstanding,   \* its messages handed to a callback and not yet acked or nacked
    \* --- the bulk loader
    bulk_input,         \* incidents, the list json.load read from the data file
    bulk_i,             \* i of the loop of load_historical_data
    bulk_pc,            \* load_historical_data: "loop", "done" or "raised"
    bulk_exit,          \* the exit status of the process, or NoExit
    bulk_log,           \* the lines load_historical_data logged
    bulk_calls,         \* the rows of each _insert_to_bigquery call made so far
    bulk_live,          \* positions of the incidents _update_firestore returned for
    bulk_fault          \* the remote call that failed during the load, or "none"

busVars == <<incident_stream, lease, acked, deliveries>>
topicVars == <<agent_topic, notification_topic, analytics_topic>>
storeVars == <<embeddings_table, realtime_table, fs_incidents, area_stats>>
workerVars == <<pc, cur, eff, failedAt, outcome, sawTerminal>>
simVars == <<dataset, feed_index, incident_queue, sim_incidents, agent_activities,
             notifications, stats, sim_pc, sim_cur, pool, tasks_done, sim_faults>>
orchVars == <<task_pc, task_cur, task_holds, task_acked, task_deliveries, task_result,
              task_outcome, task_logged, fs_agent_activities, fs_agent_docs, task_faults>>
flowVars == <<flow_sub, flow_backlog, flow_outstanding>>
bulkVars == <<bulk_input, bulk_i, bulk_pc, bulk_exit, bulk_log, bulk_calls, bulk_live,
              bulk_fault>>
vars == <<busVars, topicVars, storeVars, workerVars, publish_result, simVars, orchVars,
          flowVars, bulkVars>>

\* ----------------------------------------------------------------- helpers
\* The bag of the elements of a sequence: each with the copies the sequence has.
SeqToBag(s) ==
    IF s = <<>> THEN EmptyBag
    ELSE [r \in {s[i] : i \in DOMAIN s} |-> Cardinality({i \in DOMAIN s : s[i] = r})]

RECURSIVE SumCopies(_, _)
SumCopies(table, S) ==
    IF S = {} THEN 0
    ELSE LET r == CHOOSE y \in S : TRUE
         IN CopiesIn(r, table) + SumCopies(table, S \ {r})

\* Rows of a table that carry the id, and how many there are (with copies).
RowsOf(table, id) == {r \in BagToSet(table) : r.id = id}
RowCount(table, id) == SumCopies(table, RowsOf(table, id))

\* -------------------------------------------------------------------- Init
PipelineInit ==
    /\ incident_stream = <<>>
    /\ lease = [m \in 1..MaxPublished |-> NoWorker]
    /\ acked = {}
    /\ deliveries = 0
    /\ agent_topic = EmptyBag
    /\ notification_topic = EmptyBag
    /\ analytics_topic = EmptyBag
    /\ embeddings_table = EmptyBag
    /\ realtime_table = EmptyBag
    /\ fs_incidents = [id \in IncidentIds |-> NoDoc]
    /\ area_stats = [a \in Areas |-> [incident_count |-> 0, priority_sum |-> 0]]
    /\ pc = [w \in Workers |-> "idle"]
    /\ cur = [w \in Workers |-> NoMsg]
    /\ eff = [w \in Workers |-> {}]
    /\ failedAt = [w \in Workers |-> "none"]
    /\ outcome = [w \in Workers |-> "none"]
    /\ sawTerminal = [w \in Workers |-> FALSE]
    /\ publish_result = "none"

\* ------------------------------------------------------------ the producer
\* _trigger_high_priority_agents: the three task bodies, in publishing order.
AgentTasks(inc) ==
    << [task_type |-> "notification_blast", incident_id |-> inc.id,
        departments |-> <<inc.assigned_department>>],
       [task_type |-> "trend_analysis", incident_id |-> inc.id,
        departments |-> <<>>],
       [task_type |-> "resource_allocation", incident_id |-> inc.id,
        departments |-> <<>>] >>

\* A router that looks at what is on the agent topic already.
TriggeredTasks_OncePerTopic(inc) ==
    IF inc.priority_score >= AGENT_TRIGGER_PRIORITY /\ agent_topic = EmptyBag
    THEN AgentTasks(inc) ELSE <<>>

\* The tasks publish_incident publishes for an incident: none below the trigger.
TriggeredTasks(inc) ==
    IF inc.priority_score >= AGENT_TRIGGER_PRIORITY THEN AgentTasks(inc) ELSE <<>>

\* incident_data.update({...}): the processing metadata publish_incident adds.
WithStreamMetadata(inc) ==
    [id |-> inc.id, priority_score |-> inc.priority_score,
     event_status |-> inc.event_status, area_category |-> inc.area_category,
     assigned_department |-> inc.assigned_department, timestamp |-> inc.timestamp,
     stream_timestamp |-> "utcnow", processing_status |-> "pending",
     source_type |-> "real_time"]

\* A producer that triggers the agents before it publishes the incident.
publish_incident_TasksFirst(inc, raisesAt) ==
    /\ Len(incident_stream) < MaxPublished
    /\ raisesAt \in 0..(1 + Len(TriggeredTasks(inc)))
    /\ agent_topic' = agent_topic (+) SeqToBag(TriggeredTasks(inc))
    /\ IF raisesAt = 0
       THEN /\ incident_stream' = Append(incident_stream,
                                         [kind |-> "ok", inc |-> WithStreamMetadata(inc)])
            /\ publish_result' = "ok"
       ELSE /\ publish_result' = "raised"
            /\ UNCHANGED incident_stream
    /\ UNCHANGED <<lease, acked, deliveries, notification_topic, analytics_topic,
                   storeVars, workerVars, simVars, orchVars, flowVars, bulkVars>>

\* publish_incident(incident_data). raisesAt = 0: every publish call returns;
\* raisesAt = 1: publishing the incident raises; raisesAt = k + 1: publishing
\* the k-th agent task raises. The except clause logs and re-raises.
publish_incident(inc, raisesAt) ==
    /\ Len(incident_stream) < MaxPublished
    /\ raisesAt \in 0..(1 + Len(TriggeredTasks(inc)))
    /\ IF raisesAt = 1
       THEN /\ publish_result' = "raised"
            /\ UNCHANGED <<incident_stream, agent_topic>>
       ELSE /\ incident_stream' = Append(incident_stream,
                                         [kind |-> "ok", inc |-> WithStreamMetadata(inc)])
            /\ LET tasks == TriggeredTasks(inc)
                   sent == IF raisesAt = 0 THEN tasks ELSE SubSeq(tasks, 1, raisesAt - 2)
               IN agent_topic' = agent_topic (+) SeqToBag(sent)
            /\ publish_result' = IF raisesAt = 0 THEN "ok" ELSE "raised"
    /\ UNCHANGED <<lease, acked, deliveries, notification_topic, analytics_topic,
                   storeVars, workerVars, simVars, orchVars, flowVars, bulkVars>>

\* Another producer of incident-stream publishes a body the pipeline cannot parse.
ForeignPublish(kind) ==
    /\ Len(incident_stream) < MaxPublished
    /\ kind \in MalformedKinds
    /\ incident_stream' = Append(incident_stream, [kind |-> kind, inc |-> MalformedCarrier])
    /\ UNCHANGED <<lease, acked, deliveries, topicVars, storeVars, workerVars,
                   publish_result, simVars, orchVars, flowVars, bulkVars>>

\* ---------------------------------------------------------------- the bus
Msg(w) == incident_stream[cur[w]]
Inc(w) == Msg(w).inc

\* The record store already holds the id in a terminal status.
TerminalInStore(id) ==
    \E r \in RowsOf(embeddings_table, id) \cup RowsOf(realtime_table, id) :
        r.event_status \in TerminalStatuses

\* Worker threads are interchangeable: the callback runs on the first idle one.
FirstIdle == CHOOSE w \in Workers : pc[w] = "idle" /\ \A v \in Workers : pc[v] = "idle" => w <= v

\* message.ack(): the bus takes it from the holder of the message's lease; an
\* ack that arrives after the lease ran out is not honoured.
BusAfterAck(w) ==
    /\ acked' = IF lease[cur[w]] = w THEN acked \cup {cur[w]} ELSE acked
    /\ lease' = IF lease[cur[w]] = w THEN [lease EXCEPT ![cur[w]] = NoWorker] ELSE lease

\* message.nack(): the message is available for redelivery at once.
BusAfterNack(w) ==
    /\ lease' = IF lease[cur[w]] = w THEN [lease EXCEPT ![cur[w]] = NoWorker] ELSE lease
    /\ UNCHANGED acked

\* ------------------------------------------------ process_incident_stream
\* A plausible slip: the except clause acknowledges instead of requeueing.
HandleException_Acks(w, step) ==
    /\ pc' = [pc EXCEPT ![w] = "idle"]
    /\ failedAt' = [failedAt EXCEPT ![w] = step]
    /\ outcome' = [outcome EXCEPT ![w] = "ack"]
    /\ BusAfterAck(w)

\* An except clause that neither acks nor nacks.
HandleException_Silent(w, step) ==
    /\ pc' = [pc EXCEPT ![w] = "idle"]
    /\ failedAt' = [failedAt EXCEPT ![w] = step]
    /\ outcome' = [outcome EXCEPT ![w] = "none"]
    /\ UNCHANGED <<lease, acked>>

\* The except clause of process_incident_stream: log, then message.nack().
HandleException(w, step) ==
    /\ pc' = [pc EXCEPT ![w] = "idle"]
    /\ failedAt' = [failedAt EXCEPT ![w] = step]
    /\ outcome' = [outcome EXCEPT ![w] = "nack"]
    /\ BusAfterNack(w)

\* process_incident_stream, step 6: whether _send_notifications is called.
NeedsNotification(inc) == inc.priority_score >= NOTIFY_PRIORITY

\* A plausible slip: message.ack() placed right after the persistence step.
AfterStep_AckAfterPersistence(step, inc) ==
    CASE step = "embed" -> "bigquery"
      [] step = "bigquery" -> "ack"
      [] step = "firestore" -> "analytics"
      [] step = "analytics" -> IF NeedsNotification(inc) THEN "notify" ELSE "ack"
      [] step = "notify" -> "ack"

\* A try block that returns after its last publish without message.ack().
AfterStep_ReturnsUnacked(step, inc) ==
    CASE step = "embed" -> "bigquery"
      [] step = "bigquery" -> "firestore"
      [] step = "firestore" -> "analytics"
      [] step = "analytics" -> IF NeedsNotification(inc) THEN "notify" ELSE "idle"
      [] step = "notify" -> "idle"

\* A try block that publishes the analytics events before it persists.
AfterStep_AnalyticsFirst(step, inc) ==
    CASE step = "embed" -> "analytics"
      [] step = "analytics" -> "bigquery"
      [] step = "bigquery" -> "firestore"
      [] step = "firestore" -> IF NeedsNotification(inc) THEN "notify" ELSE "ack"
      [] step = "notify" -> "ack"

\* The order of the try block of process_incident_stream: the remote call that
\* follows each one, down to message.ack().
AfterStep(step, inc) ==
    CASE step = "embed" -> "bigquery"
      [] step = "bigquery" -> "firestore"
      [] step = "firestore" -> "analytics"
      [] step = "analytics" -> IF NeedsNotification(inc) THEN "notify" ELSE "ack"
      [] step = "notify" -> "ack"

\* The callback goes on to the remote call that follows `step`.
Advance(w, step) ==
    /\ pc' = [pc EXCEPT ![w] = AfterStep(step, incident_stream[cur[w]].inc)]
    /\ UNCHANGED <<failedAt, outcome, lease, acked>>

Did(w, what) == eff' = [eff EXCEPT ![w] = @ \cup {what}]

\* The bus hands message m to the callback (a first delivery or a redelivery).
\* The callback parses the body and builds the embedding text; json.loads
\* raises on bytes that are not JSON, incident_data['description'] on a body
\* without that key.
Deliver(m) ==
    /\ m \in 1..Len(incident_stream)
    /\ m \notin acked
    /\ lease[m] = NoWorker
    /\ deliveries < MaxDeliveries
    /\ \E w \in Workers : pc[w] = "idle"
    /\ LET w == FirstIdle
           msg == incident_stream[m]
       IN /\ deliveries' = deliveries + 1
          /\ cur' = [cur EXCEPT ![w] = m]
          /\ eff' = [eff EXCEPT ![w] = {}]
          /\ sawTerminal' = [sawTerminal EXCEPT ![w] =
                                msg.kind = "ok" /\ TerminalInStore(msg.inc.id)]
          /\ IF msg.kind \in {"bad_json", "no_description"}
             THEN /\ pc' = [pc EXCEPT ![w] = "idle"]
                  /\ failedAt' = [failedAt EXCEPT ![w] = "parse"]
                  /\ outcome' = [outcome EXCEPT ![w] = "nack"]
                  /\ UNCHANGED <<lease, acked>>
             ELSE /\ pc' = [pc EXCEPT ![w] = "embed"]
                  /\ failedAt' = [failedAt EXCEPT ![w] = "none"]
                  /\ outcome' = [outcome EXCEPT ![w] = "none"]
                  /\ lease' = [lease EXCEPT ![m] = w]
                  /\ UNCHANGED acked
    /\ UNCHANGED <<incident_stream, topicVars, storeVars, publish_result, simVars, orchVars, flowVars, bulkVars>>

\* The lease of a message runs out while its callback is still at work: the
\* bus may deliver the message again.
LeaseExpire(m) ==
    /\ m \in 1..Len(incident_stream)
    /\ lease[m] # NoWorker
    /\ lease' = [lease EXCEPT ![m] = NoWorker]
    /\ UNCHANGED <<incident_stream, acked, deliveries, topicVars, storeVars,
                   workerVars, publish_result, simVars, orchVars, flowVars, bulkVars>>

\* _prepare_bigquery_row(incident_data, embeddings).
PrepareBigqueryRow(inc) ==
    [id |-> inc.id, event_status |-> inc.event_status,
     priority_score |-> inc.priority_score, area_category |-> inc.area_category,
     assigned_department |-> inc.assigned_department, timestamp |-> inc.timestamp]

\* 1. embedding_model.get_embeddings, then 2. _prepare_bigquery_row, which
\*    raises KeyError on a body without 'event_type'.
Embed(w, ok) ==
    /\ pc[w] = "embed"
    /\ IF ~ok
       THEN HandleException(w, "embed") /\ UNCHANGED eff
       ELSE /\ Did(w, "embed")
            /\ IF Msg(w).kind = "no_event_type"
               THEN HandleException(w, "prepare")
               ELSE Advance(w, "embed")
    /\ UNCHANGED <<incident_stream, deliveries, topicVars, storeVars, cur,
                   sawTerminal, publish_result, simVars, orchVars, flowVars, bulkVars>>

\* bq_client.load_table_from_json(rows, table_id) and job.result(): a load job
\* appends the rows to the table.
LoadTableFromJson(table, rows) == table (+) SeqToBag(rows)

\* A plausible slip: the archive row is taken back when the rolling-table job
\* fails.
InsertToBigquery_Rollback(w, raisesAt) ==
    /\ pc[w] = "bigquery"
    /\ LET rows == <<PrepareBigqueryRow(Inc(w))>>
       IN /\ embeddings_table' = IF raisesAt = 0
                                 THEN LoadTableFromJson(embeddings_table, rows)
                                 ELSE embeddings_table
          /\ realtime_table' = IF raisesAt = 0 THEN LoadTableFromJson(realtime_table, rows)
                               ELSE realtime_table
    /\ eff' = [eff EXCEPT ![w] = @ \cup (IF raisesAt = 1 THEN {}
                                        ELSE IF raisesAt = 2 THEN {"archive"}
                                        ELSE {"archive", "rolling"})]
    /\ IF raisesAt = 0 THEN Advance(w, "bigquery")
       ELSE HandleException(w, IF raisesAt = 1 THEN "archive" ELSE "rolling")
    /\ UNCHANGED <<incident_stream, deliveries, topicVars, fs_incidents,
                   area_stats, cur, sawTerminal, publish_result, simVars, orchVars, flowVars, bulkVars>>

\* 3. _insert_to_bigquery([bq_row]): one load job per table, the archive
\*    first. raisesAt = 0: both jobs succeed; raisesAt = 1: the archive job
\*    raises and nothing is written; raisesAt = 2: the rolling-table job raises
\*    after the archive job has written.
InsertToBigquery(w, raisesAt) ==
    /\ pc[w] = "bigquery"
    /\ LET rows == <<PrepareBigqueryRow(Inc(w))>>
       IN /\ embeddings_table' = IF raisesAt = 1 THEN embeddings_table
                                 ELSE LoadTableFromJson(embeddings_table, rows)
          /\ realtime_table' = IF raisesAt = 0 THEN LoadTableFromJson(realtime_table, rows)
                               ELSE realtime_table
    /\ eff' = [eff EXCEPT ![w] = @ \cup (IF raisesAt = 1 THEN {}
                                        ELSE IF raisesAt = 2 THEN {"archive"}
                                        ELSE {"archive", "rolling"})]
    /\ IF raisesAt = 0 THEN Advance(w, "bigquery")
       ELSE HandleException(w, IF raisesAt = 1 THEN "archive" ELSE "rolling")
    /\ UNCHANGED <<incident_stream, deliveries, topicVars, fs_incidents,
                   area_stats, cur, sawTerminal, publish_result, simVars, orchVars, flowVars, bulkVars>>

\* _update_firestore: the ui_status of the live document.
UiStatus(inc) ==
    IF inc.event_status \in {"reported", "in_progress"} THEN "active" ELSE "resolved"

\* _update_firestore: the live document, the incident's fields and ui_status.
FirestoreData(inc) ==
    [id |-> inc.id, event_status |-> inc.event_status,
     priority_score |-> inc.priority_score, area_category |-> inc.area_category,
     assigned_department |-> inc.assigned_department, ui_status |-> UiStatus(inc)]

\* A counter update that writes the values instead of adding them.
IncrementArea_Overwrite(counters, inc) ==
    [counters EXCEPT ![inc.area_category] =
        [incident_count |-> 1, priority_sum |-> inc.priority_score]]

\* area_ref.set({incident_count: Increment(1), priority_sum: Increment(p)},
\* merge=True): the store adds the deltas atomically.
IncrementArea(counters, inc) ==
    [counters EXCEPT ![inc.area_category] =
        [incident_count |-> @.incident_count + 1,
         priority_sum |-> @.priority_sum + inc.priority_score]]

\* 4. _update_firestore(incident_data): the live document, then the area
\*    statistics. raisesAt = 0: both writes succeed; raisesAt = 1: the document
\*    write raises; raisesAt = 2: the statistics write raises after the
\*    document was written.
UpdateFirestore(w, raisesAt) ==
    /\ pc[w] = "firestore"
    /\ fs_incidents' = IF raisesAt = 1 THEN fs_incidents
                       ELSE [fs_incidents EXCEPT ![Inc(w).id] = FirestoreData(Inc(w))]
    /\ area_stats' = IF raisesAt = 0 THEN IncrementArea(area_stats, Inc(w))
                     ELSE area_stats
    /\ eff' = [eff EXCEPT ![w] = @ \cup (IF raisesAt = 1 THEN {}
                                        ELSE IF raisesAt = 2 THEN {"doc"}
                                        ELSE {"doc", "counter"})]
    /\ IF raisesAt = 0 THEN Advance(w, "firestore")
       ELSE HandleException(w, IF raisesAt = 1 THEN "doc" ELSE "counter")
    /\ UNCHANGED <<incident_stream, deliveries, topicVars, embeddings_table,
                   realtime_table, cur, sawTerminal, publish_result, simVars, orchVars, flowVars, bulkVars>>

\* _publish_analytics_events: the two events, in publishing order.
AnalyticsEvents(inc) ==
    << [metric_name |-> "incident_count", metric_value |-> 10,
        area_category |-> inc.area_category],
       [metric_name |-> "priority_score", metric_value |-> inc.priority_score,
        area_category |-> inc.area_category] >>

\* 5. _publish_analytics_events(incident_data): raisesAt = 0, both publish
\*    calls return; raisesAt = k, the k-th raises.
PublishAnalytics(w, raisesAt) ==
    /\ pc[w] = "analytics"
    /\ LET events == AnalyticsEvents(Inc(w))
           sent == IF raisesAt = 0 THEN events ELSE SubSeq(events, 1, raisesAt - 1)
       IN /\ analytics_topic' = analytics_topic (+) SeqToBag(sent)
          /\ eff' = [eff EXCEPT ![w] = @ \cup {<<"analytics1", "analytics2">>[k] : k \in 1..Len(sent)}]
    /\ IF raisesAt = 0
       THEN Advance(w, "analytics")
       ELSE HandleException(w, "analytics")
    /\ UNCHANGED <<incident_stream, deliveries, agent_topic, notification_topic,
                   storeVars, cur, sawTerminal, publish_result, simVars, orchVars, flowVars, bulkVars>>

\* _send_notifications: the message published to notification-stream.
NotificationData(inc) ==
    [type |-> "high_priority_incident", incident_id |-> inc.id,
     priority_score |-> inc.priority_score,
     departments |-> <<inc.assigned_department>>]

\* 6. _send_notifications(incident_data).
SendNotifications(w, ok) ==
    /\ pc[w] = "notify"
    /\ IF ~ok
       THEN HandleException(w, "notify") /\ UNCHANGED <<eff, notification_topic>>
       ELSE /\ notification_topic' = notification_topic (+) SetToBag({NotificationData(Inc(w))})
            /\ Did(w, "notify")
            /\ Advance(w, "notify")
    /\ UNCHANGED <<incident_stream, deliveries, agent_topic, analytics_topic,
                   storeVars, cur, sawTerminal, publish_result, simVars, orchVars, flowVars, bulkVars>>

\* message.ack(), the last statement of the try block.
Ack(w) ==
    /\ pc[w] = "ack"
    /\ pc' = [pc EXCEPT ![w] = "idle"]
    /\ outcome' = [outcome EXCEPT ![w] = "ack"]
    /\ BusAfterAck(w)
    /\ UNCHANGED <<incident_stream, deliveries, topicVars, storeVars, cur, eff,
                   failedAt, sawTerminal, publish_result, simVars, orchVars, flowVars, bulkVars>>

\* ====================================================== the local simulator
\* The size of the dataset the simulator loads.
DatasetLen == 2
\* Raises and timeouts in one run of the simulator.
MaxSimFaults == 1
\* ThreadPoolExecutor(max_workers=4).
max_workers == 4
\* process_incidents and the mock agents: the priority thresholds.
SIM_HIGH == 80
SIM_MEDIUM == 60
SIM_ALERT == 70

SimPriorities == {59, 60, 70, 79, 80}
DepartmentOf == [id \in IncidentIds |-> IF id = "X1" THEN "BBMP" ELSE "Traffic Police"]
SimIncidents ==
    {[id |-> id, priority_score |-> p, assigned_department |-> DepartmentOf[id]] :
        id \in IncidentIds, p \in SimPriorities}
NoIncident == [id |-> "none", priority_score |-> 0, assigned_department |-> "none"]

\* self.agents, in the order the dict holds them.
AgentNames == <<"notification_agent", "trend_analysis_agent",
                "resource_allocation_agent", "news_insights_agent">>

SimInit(ds) ==
    /\ dataset = ds
    /\ feed_index = 0
    /\ incident_queue = <<>>
    /\ sim_incidents = {}
    /\ agent_activities = EmptyBag
    /\ notifications = EmptyBag
    /\ stats = [incidents_processed |-> 0, high_priority_incidents |-> 0]
    /\ sim_pc = "get"
    /\ sim_cur = NoIncident
    /\ pool = <<>>
    /\ tasks_done = 0
    /\ sim_faults = 0

\* feed_incidents: the next incident of the dataset is put on the queue.
FeedIncident ==
    /\ feed_index < Len(dataset)
    /\ incident_queue' = Append(incident_queue, dataset[feed_index + 1])
    /\ feed_index' = feed_index + 1
    /\ UNCHANGED <<busVars, topicVars, storeVars, workerVars, publish_result, orchVars, flowVars,
                   dataset, sim_incidents, agent_activities, notifications, stats,
                   sim_pc, sim_cur, pool, tasks_done, sim_faults, bulkVars>>

\* The row insert_incident writes for an incident.
IncidentRow(inc) ==
    [id |-> inc.id, priority_score |-> inc.priority_score,
     assigned_department |-> inc.assigned_department]

\* An insert that keeps the rows the table holds.
InsertIncident_Plain(table, inc) == table \cup {IncidentRow(inc)}

\* insert_incident: INSERT OR REPLACE INTO incidents; id is the primary key,
\* so the row that holds the id, if any, is deleted first.
InsertIncident(table, inc) ==
    {r \in table : r.id # inc.id} \cup {IncidentRow(inc)}

\* A router that submits a high-priority incident to three agents only.
SelectedAgents_ThreeForHigh(inc) ==
    IF inc.priority_score >= SIM_HIGH
    THEN <<"notification_agent", "trend_analysis_agent", "resource_allocation_agent">>
    ELSE IF inc.priority_score >= SIM_MEDIUM
         THEN <<"notification_agent", "resource_allocation_agent">>
         ELSE <<"resource_allocation_agent">>

\* A router whose thresholds are open on the lower bound.
SelectedAgents_OpenLower(inc) ==
    IF inc.priority_score > SIM_HIGH THEN AgentNames
    ELSE IF inc.priority_score > SIM_MEDIUM
         THEN <<"notification_agent", "resource_allocation_agent">>
         ELSE <<"resource_allocation_agent">>

\* process_incidents: the agents an incident is submitted to, in order.
SelectedAgents(inc) ==
    IF inc.priority_score >= SIM_HIGH THEN AgentNames
    ELSE IF inc.priority_score >= SIM_MEDIUM
         THEN <<"notification_agent", "resource_allocation_agent">>
         ELSE <<"resource_allocation_agent">>

Submitted(inc) ==
    [k \in 1..Len(SelectedAgents(inc)) |->
        [agent |-> SelectedAgents(inc)[k], inc |-> inc, state |-> "pending",
         current |-> TRUE, waited |-> "no"]]

\* process_incidents, from incident_queue.get to the last executor.submit.
\* When insert_incident raises, the outer except clause logs and the loop
\* goes on with the next incident.
SimGet(insertOk) ==
    /\ sim_pc = "get"
    /\ incident_queue # <<>>
    /\ insertOk \/ sim_faults < MaxSimFaults
    /\ LET inc == Head(incident_queue)
       IN /\ incident_queue' = Tail(incident_queue)
          /\ IF insertOk
             THEN /\ sim_incidents' = InsertIncident(sim_incidents, inc)
                  /\ stats' = [incidents_processed |-> stats.incidents_processed + 1,
                               high_priority_incidents |->
                                   stats.high_priority_incidents
                                   + (IF inc.priority_score >= SIM_HIGH THEN 1 ELSE 0)]
                  /\ pool' = pool \o Submitted(inc)
                  /\ sim_cur' = inc
                  /\ sim_pc' = "wait"
                  /\ UNCHANGED sim_faults
             ELSE /\ sim_faults' = sim_faults + 1
                  /\ UNCHANGED <<sim_incidents, stats, pool, sim_cur, sim_pc>>
    /\ UNCHANGED <<busVars, topicVars, storeVars, workerVars, publish_result, orchVars, flowVars,
                   dataset, feed_index, agent_activities, notifications, tasks_done, bulkVars>>

Running == {i \in 1..Len(pool) : pool[i].state = "running"}

\* An executor that starts a thread for every task submitted.
AgentStart_Unbounded(i) ==
    /\ i \in 1..Len(pool)
    /\ pool[i].state = "pending"
    /\ \A j \in 1..(i - 1) : pool[j].state # "pending"
    /\ pool' = [pool EXCEPT ![i].state = "running"]
    /\ UNCHANGED <<busVars, topicVars, storeVars, workerVars, publish_result, orchVars, flowVars,
                   dataset, feed_index, incident_queue, sim_incidents,
                   agent_activities, notifications, stats, sim_pc, sim_cur,
                   tasks_done, sim_faults, bulkVars>>

\* A worker thread of the executor takes the oldest pending task.
AgentStart(i) ==
    /\ i \in 1..Len(pool)
    /\ pool[i].state = "pending"
    /\ \A j \in 1..(i - 1) : pool[j].state # "pending"
    /\ Cardinality(Running) < max_workers
    /\ pool' = [pool EXCEPT ![i].state = "running"]
    /\ UNCHANGED <<busVars, topicVars, storeVars, workerVars, publish_result, orchVars, flowVars,
                   dataset, feed_index, incident_queue, sim_incidents,
                   agent_activities, notifications, stats, sim_pc, sim_cur,
                   tasks_done, sim_faults, bulkVars>>

\* _mock_notification_processing: the notification rows it logs.
MockNotifications(inc) ==
    IF inc.priority_score >= SIM_HIGH
    THEN SetToBag({[incident_id |-> inc.id, notification_type |-> "emergency_blast",
                    priority_score |-> inc.priority_score,
                    departments |-> <<inc.assigned_department, "Emergency Services">>]})
    ELSE IF inc.priority_score >= SIM_ALERT
         THEN SetToBag({[incident_id |-> inc.id, notification_type |-> "department_alert",
                         priority_score |-> inc.priority_score,
                         departments |-> <<inc.assigned_department>>]})
         ELSE EmptyBag

\* The notification rows an agent logs: only the notification agent logs any.
NotificationsOf(agent, inc) ==
    IF agent = "notification_agent" THEN MockNotifications(inc) ELSE EmptyBag

\* The agent_activities row each mock agent logs when it completes.
ActivityOf(agent, inc) ==
    [agent_name |-> agent, incident_id |-> inc.id,
     task_type |-> CASE agent = "notification_agent" -> "notification_processing"
                     [] agent = "trend_analysis_agent" -> "trend_analysis"
                     [] agent = "resource_allocation_agent" -> "resource_allocation"
                     [] agent = "news_insights_agent" -> "news_insights",
     status |-> "completed",
     notifications_sent |-> IF agent = "notification_agent" THEN 1 ELSE 0]

\* pool without its i-th task.
Without(seq, i) == SubSeq(seq, 1, i - 1) \o SubSeq(seq, i + 1, Len(seq))

\* MockAIAgent.process_incident runs to its end on a worker thread.
\* raisesAt = 0: it returns; raisesAt = 1: its first database write raises;
\* raisesAt = 2: log_agent_activity raises after log_notification has written.
\* A task no loop iteration waits for any more leaves the pool when it ends.
AgentFinish(i, raisesAt) ==
    /\ i \in 1..Len(pool)
    /\ pool[i].state = "running"
    /\ raisesAt = 0 \/ sim_faults < MaxSimFaults
    /\ LET t == pool[i]
           logged == NotificationsOf(t.agent, t.inc)
       IN /\ raisesAt = 2 => logged # EmptyBag
          /\ notifications' = IF raisesAt = 1 THEN notifications
                              ELSE notifications (+) logged
          /\ agent_activities' = IF raisesAt = 0
                                 THEN agent_activities (+) SetToBag({ActivityOf(t.agent, t.inc)})
                                 ELSE agent_activities
          /\ pool' = IF t.current
                     THEN [pool EXCEPT ![i].state = IF raisesAt = 0 THEN "done" ELSE "raised"]
                     ELSE Without(pool, i)
    /\ sim_faults' = sim_faults + (IF raisesAt = 0 THEN 0 ELSE 1)
    /\ UNCHANGED <<busVars, topicVars, storeVars, workerVars, publish_result, orchVars, flowVars,
                   dataset, feed_index, incident_queue, sim_incidents, stats,
                   sim_pc, sim_cur, tasks_done, bulkVars>>

\* A loop that stops waiting for the futures of an incident once one failed.
Unawaited_StopAtFailure ==
    IF \E i \in 1..Len(pool) : pool[i].current /\ pool[i].waited = "failed"
    THEN {}
    ELSE {i \in 1..Len(pool) : pool[i].current /\ pool[i].waited = "no"}

\* The futures of the incident at hand that future.result was not yet called on.
Unawaited == {i \in 1..Len(pool) : pool[i].current /\ pool[i].waited = "no"}
NextAwaited == CHOOSE i \in Unawaited : \A j \in Unawaited : i <= j

\* process_incidents: future.result(timeout=10) on the next future. It returns
\* when the agent has returned, raises what the agent raised, and raises
\* TimeoutError when the agent has not ended in time; both raises are logged.
SimWait(timeout) ==
    /\ sim_pc = "wait"
    /\ Unawaited # {}
    /\ LET i == NextAwaited
       IN IF timeout
          THEN /\ pool[i].state \in {"pending", "running"}
               /\ sim_faults < MaxSimFaults
               /\ pool' = [pool EXCEPT ![i].waited = "failed"]
               /\ sim_faults' = sim_faults + 1
          ELSE /\ pool[i].state \in {"done", "raised"}
               /\ pool' = [pool EXCEPT ![i].waited =
                              IF pool[i].state = "done" THEN "completed" ELSE "failed"]
               /\ UNCHANGED sim_faults
    /\ UNCHANGED <<busVars, topicVars, storeVars, workerVars, publish_result, orchVars, flowVars,
                   dataset, feed_index, incident_queue, sim_incidents,
                   agent_activities, notifications, stats, sim_pc, sim_cur, tasks_done, bulkVars>>

\* The tasks that stay in the pool when the loop moves on: those still to end.
RECURSIVE Leftover(_)
Leftover(seq) ==
    IF seq = <<>> THEN <<>>
    ELSE IF Head(seq).state \in {"pending", "running"}
         THEN <<[Head(seq) EXCEPT !.current = FALSE]>> \o Leftover(Tail(seq))
         ELSE Leftover(Tail(seq))

\* process_incidents: every future was waited for; incident_queue.task_done().
SimTaskDone ==
    /\ sim_pc = "wait"
    /\ Unawaited = {}
    /\ tasks_done' = tasks_done + 1
    /\ pool' = Leftover(pool)
    /\ sim_pc' = "get"
    /\ UNCHANGED <<busVars, topicVars, storeVars, workerVars, publish_result, orchVars, flowVars,
                   dataset, feed_index, incident_queue, sim_incidents,
                   agent_activities, notifications, stats, sim_cur, sim_faults, bulkVars>>

\* ================================================= the agent orchestrator
\* Task messages ever on agent-tasks.
MaxTasks == 4
\* Deliveries of task messages.
MaxTaskDeliveries == 3
\* Callbacks of the orchestrator that run at a time.
MaxAgentInFlight == 2
\* Failed remote calls of the handlers in one run.
MaxTaskFaults == 1

AgentWorkers == 1..MaxAgentInFlight
NoTask == [task_type |-> "none", incident_id |-> "none", departments |-> <<>>]
NoTaskMsg == <<NoTask, 0>>

\* The messages on agent-tasks: the k-th copy of each task body published.
TaskMessages ==
    UNION {{<<t, k>> : k \in 1..CopiesIn(t, agent_topic)} : t \in BagToSet(agent_topic)}

OrchInit ==
    /\ task_pc = [w \in AgentWorkers |-> "idle"]
    /\ task_cur = [w \in AgentWorkers |-> NoTaskMsg]
    /\ task_holds = [w \in AgentWorkers |-> FALSE]
    /\ task_acked = {}
    /\ task_deliveries = 0
    /\ task_result = [w \in AgentWorkers |-> "none"]
    /\ task_outcome = [w \in AgentWorkers |-> "none"]
    /\ task_logged = [w \in AgentWorkers |-> 0]
    /\ fs_agent_activities = EmptyBag
    /\ fs_agent_docs = EmptyBag
    /\ task_faults = 0

\* What another publisher can put on agent-tasks: a task type no branch of the
\* dispatcher names, bytes that are not JSON, and a task type the dispatcher
\* routes to a handler that is a stub.
ForeignTaskKinds == {"unknown_kind", "bad_json", "department_alert"}

ForeignTask(kind) ==
    /\ BagCardinality(agent_topic) < MaxTasks
    /\ kind \in ForeignTaskKinds
    /\ agent_topic' = agent_topic (+) SetToBag({[task_type |-> kind, incident_id |-> "X1",
                                                 departments |-> <<>>]})
    /\ UNCHANGED <<busVars, notification_topic, analytics_topic, storeVars, workerVars,
                   publish_result, simVars, orchVars, flowVars, bulkVars>>

\* process_agent_task: the agent the dispatcher routes a task type to.
AgentFor(task_type) ==
    IF task_type \in {"notification_blast", "department_alert", "citizen_update"}
    THEN "notification_agent"
    ELSE IF task_type \in {"trend_analysis", "hotspot_detection", "pattern_recognition"}
    THEN "trend_analysis_agent"
    ELSE IF task_type \in {"resource_allocation", "capacity_planning"}
    THEN "resource_allocation_agent"
    ELSE IF task_type \in {"daily_summary", "hot_topics", "impact_analysis"}
    THEN "news_insights_agent"
    ELSE "none"

\* The handlers that do work; the others return success at once.
WorkingHandlers == {"notification_blast", "trend_analysis", "resource_allocation"}

\* The writes and publishes of a handler after its query and its model call,
\* in order. log_agent_activity is the last call of each.
HandlerEffects(task_type) ==
    CASE task_type = "notification_blast" -> <<"publish_notification", "add_doc", "log">>
      [] task_type = "trend_analysis" -> <<"add_doc", "publish_analytics", "log">>
      [] task_type = "resource_allocation" -> <<"add_doc", "log">>
      [] OTHER -> <<>>

\* The remote calls of a handler: the query, the model call, then its effects.
RemoteCalls(task_type) ==
    IF task_type \in WorkingHandlers THEN 2 + Len(HandlerEffects(task_type)) ELSE 0

\* _send_notification_blast: the incident query found a row of the id.
IncidentFound(id) == RowsOf(realtime_table, id) # {}

\* What process_task does with a task when its raisesAt-th remote call fails
\* (0: none fails). The queries of _send_notification_blast run outside its
\* try block, so their exception leaves the handler; every other failure is
\* caught by the handler and returned as an error status.
HandlerResult(task, raisesAt) ==
    IF task.task_type = "notification_blast" /\ raisesAt = 1 THEN "raised"
    ELSE IF task.task_type = "notification_blast" /\ ~IncidentFound(task.incident_id)
    THEN "error"
    ELSE IF raisesAt = 0 THEN "success" ELSE "error"

\* The effects the handler has had when it returns or raises.
EffectsDone(task, raisesAt) ==
    IF task.task_type = "notification_blast"
       /\ (raisesAt = 1 \/ ~IncidentFound(task.incident_id))
    THEN <<>>
    ELSE IF raisesAt = 0 THEN HandlerEffects(task.task_type)
    ELSE IF raisesAt <= 2 THEN <<>>
    ELSE SubSeq(HandlerEffects(task.task_type), 1, raisesAt - 3)

Has(seq, x) == \E k \in 1..Len(seq) : seq[k] = x

\* log_agent_activity: the document it sets.
ActivityRecord(task) ==
    [agent_name |-> AgentFor(task.task_type), task_id |-> task.incident_id,
     status |-> "completed"]

\* The subscriber hands a task message that is neither acknowledged nor leased
\* to the callback, on the first idle worker thread.
FirstIdleAgent ==
    CHOOSE w \in AgentWorkers :
        task_pc[w] = "idle" /\ \A v \in AgentWorkers : task_pc[v] = "idle" => w <= v

TaskDeliver(m) ==
    /\ task_deliveries < MaxTaskDeliveries
    /\ m \in TaskMessages \ task_acked
    /\ \A w \in AgentWorkers : ~(task_holds[w] /\ task_cur[w] = m)
    /\ \E w \in AgentWorkers : task_pc[w] = "idle"
    /\ LET w == FirstIdleAgent
       IN /\ task_pc' = [task_pc EXCEPT ![w] = "handle"]
          /\ task_cur' = [task_cur EXCEPT ![w] = m]
          /\ task_holds' = [task_holds EXCEPT ![w] = TRUE]
          /\ task_result' = [task_result EXCEPT ![w] = "none"]
          /\ task_outcome' = [task_outcome EXCEPT ![w] = "none"]
          /\ task_logged' = [task_logged EXCEPT ![w] = 0]
    /\ task_deliveries' = task_deliveries + 1
    /\ UNCHANGED <<busVars, topicVars, storeVars, workerVars, publish_result, simVars, flowVars,
                   task_acked, fs_agent_activities, fs_agent_docs, task_faults, bulkVars>>

\* The lease of a task message runs out while its callback is still running.
TaskLeaseExpire(w) ==
    /\ task_pc[w] = "handle"
    /\ task_holds[w]
    /\ task_holds' = [task_holds EXCEPT ![w] = FALSE]
    /\ UNCHANGED <<busVars, topicVars, storeVars, workerVars, publish_result, simVars, flowVars,
                   task_pc, task_cur, task_acked, task_deliveries, task_result,
                   task_outcome, task_logged, fs_agent_activities, fs_agent_docs,
                   task_faults, bulkVars>>

\* A dispatcher that drops a task it has no agent for.
DispatchOutcome_DropsUnknown(agent, result) ==
    IF agent = "none" THEN "ack"
    ELSE IF result = "raised" THEN "nack" ELSE "ack"

\* process_agent_task: ack or nack. With an agent found it acks whatever
\* status the handler returned; it nacks when no agent was found and in its
\* except clause.
DispatchOutcome(agent, result) ==
    IF agent = "none" THEN "nack"
    ELSE IF result = "raised" THEN "nack" ELSE "ack"

\* process_agent_task(message), from json.loads to message.ack() or
\* message.nack(), with the handler it calls.
ProcessAgentTask(w, raisesAt) ==
    /\ task_pc[w] = "handle"
    /\ LET m == task_cur[w]
           task == m[1]
           parsed == task.task_type # "bad_json"
           agent == IF parsed THEN AgentFor(task.task_type) ELSE "none"
           called == parsed /\ agent # "none"
           result == IF ~parsed THEN "unparsed"
                     ELSE IF agent = "none" THEN "no_agent"
                     ELSE HandlerResult(task, raisesAt)
           done == IF called THEN EffectsDone(task, raisesAt) ELSE <<>>
           out == IF ~parsed THEN "nack" ELSE DispatchOutcome(agent, result)
       IN /\ raisesAt \in 0..(IF called THEN RemoteCalls(task.task_type) ELSE 0)
          /\ (called /\ task.task_type = "notification_blast"
                /\ ~IncidentFound(task.incident_id)) => raisesAt <= 1
          /\ raisesAt = 0 \/ task_faults < MaxTaskFaults
          /\ task_faults' = task_faults + (IF raisesAt = 0 THEN 0 ELSE 1)
          /\ notification_topic' =
                IF Has(done, "publish_notification")
                THEN notification_topic (+) SetToBag({[type |-> "emergency_blast",
                                                       incident_id |-> task.incident_id]})
                ELSE notification_topic
          /\ analytics_topic' =
                IF Has(done, "publish_analytics")
                THEN analytics_topic (+) SetToBag({[metric_name |-> "trend_analysis_completed",
                                                    metric_value |-> 10]})
                ELSE analytics_topic
          /\ fs_agent_docs' =
                IF Has(done, "add_doc")
                THEN fs_agent_docs (+) SetToBag({[agent_name |-> agent,
                                                  incident_id |-> task.incident_id]})
                ELSE fs_agent_docs
          /\ fs_agent_activities' =
                IF Has(done, "log")
                THEN fs_agent_activities (+) SetToBag({ActivityRecord(task)})
                ELSE fs_agent_activities
          /\ task_logged' = [task_logged EXCEPT ![w] = IF Has(done, "log") THEN 1 ELSE 0]
          /\ task_result' = [task_result EXCEPT ![w] = result]
          /\ task_outcome' = [task_outcome EXCEPT ![w] = out]
          /\ task_acked' = IF out = "ack" /\ task_holds[w] THEN task_acked \cup {m}
                           ELSE task_acked
    /\ task_pc' = [task_pc EXCEPT ![w] = "idle"]
    /\ task_holds' = [task_holds EXCEPT ![w] = FALSE]
    /\ UNCHANGED <<busVars, agent_topic, storeVars, workerVars, publish_result, simVars, flowVars,
                   task_cur, task_deliveries, bulkVars>>

\* ============================================ flow control of the pulls
\* Messages a subscription holds at a time, delivered or not.
MaxFlowMessages == 102
\* FlowControl(max_messages=...) of the two subscribers.
INCIDENT_MAX_MESSAGES == 100
AGENT_MAX_MESSAGES == 50

Subscriptions == {"incident-worker", "agent-worker"}

\* An unbounded pull.
FlowControlCap_None(sub) == MaxFlowMessages

\* The flow_control each subscriber passes to subscribe().
FlowControlCap(sub) ==
    IF sub = "incident-worker" THEN INCIDENT_MAX_MESSAGES ELSE AGENT_MAX_MESSAGES

FlowInit ==
    /\ flow_sub = "incident-worker"
    /\ flow_backlog = 0
    /\ flow_outstanding = 0

\* A message is published to the topic of the subscription.
FlowPublish ==
    /\ flow_backlog + flow_outstanding < MaxFlowMessages
    /\ flow_backlog' = flow_backlog + 1
    /\ UNCHANGED <<busVars, topicVars, storeVars, workerVars, publish_result, simVars,
                   orchVars, flow_sub, flow_outstanding, bulkVars>>

\* subscribe(callback, flow_control): the streaming pull hands a message to
\* the callback while fewer than max_messages are outstanding.
FlowDeliver ==
    /\ flow_backlog > 0
    /\ flow_outstanding < FlowControlCap(flow_sub)
    /\ flow_backlog' = flow_backlog - 1
    /\ flow_outstanding' = flow_outstanding + 1
    /\ UNCHANGED <<busVars, topicVars, storeVars, workerVars, publish_result, simVars,
                   orchVars, flow_sub, bulkVars>>

\* A callback ends in message.ack() or in message.nack(); a nacked message is
\* back in the backlog.
FlowSettle(ack) ==
    /\ flow_outstanding > 0
    /\ flow_outstanding' = flow_outstanding - 1
    /\ flow_backlog' = IF ack THEN flow_backlog ELSE flow_backlog + 1
    /\ UNCHANGED <<busVars, topicVars, storeVars, workerVars, publish_result, simVars,
                   orchVars, flow_sub, bulkVars>>


\* ------------------------------------------------------------- bulk loader
\* BulkDataLoader (streaming/realtime_processor.py): load_historical_data
\* and _process_batch, run as the program's load_historical command.

\* Incidents in the largest data file.
MaxBulkLen == 201
\* The _update_firestore call of a batch that a failing store fails: the
\* first, ..., the MaxBulkFaultAt-th.
MaxBulkFaultAt == 2

\* self.batch_size.
batch_size == 100
\* timedelta(days=7) of recent_cutoff.
RECENT_DAYS == 7
\* No exit status: the process runs.
NoExit == -1

\* The data files: every length up to MaxBulkLen, ages on each side of the
\* cutoff, the two ids in turn, and timestamps written without a zone
\* ("naive"), with the Z the repository's generators append ("utc"), or
\* without a zone in the first batch_size entries and with Z after them.
BulkAges == <<1, 6, 7, 8>>
ZonePatterns == {"naive", "utc", "late_utc"}
ZoneOf(pattern, k) ==
    CASE pattern = "naive" -> "none"
      [] pattern = "utc" -> "Z"
      [] pattern = "late_utc" -> IF k > batch_size THEN "Z" ELSE "none"

BulkIncident(k, pattern) ==
    [Incident(IF k % 2 = 1 THEN "X1" ELSE "X2", 85, "reported",
              IF k % 3 = 0 THEN "Zone-A" ELSE "Zone-B")
        EXCEPT !.timestamp = Timestamp(BulkAges[(k % Len(BulkAges)) + 1],
                                       ZoneOf(pattern, k))]

DataFiles ==
    {[k \in 1..n |-> BulkIncident(k, z)] : n \in 0..MaxBulkLen, z \in ZonePatterns}

\* The loader once json.load has returned the incidents of the data file.
BulkInit(incidents) ==
    /\ bulk_input = incidents
    /\ bulk_i = 0
    /\ bulk_pc = "loop"
    /\ bulk_exit = NoExit
    /\ bulk_log = <<>>
    /\ bulk_calls = <<>>
    /\ bulk_live = {}
    /\ bulk_fault = "none"

Min(a, b) == IF a < b THEN a ELSE b

\* A slice that takes one element too many.
Batch_Overlap(incidents, i) ==
    SubSeq(incidents, i + 1, Min(i + batch_size + 1, Len(incidents)))

\* incidents[i:i + self.batch_size], i counted from 0.
Batch(incidents, i) == SubSeq(incidents, i + 1, Min(i + batch_size, Len(incidents)))

\* The rows _process_batch collects, one per incident of the batch, in order.
BatchRows(batch) == [j \in 1..Len(batch) |-> PrepareBigqueryRow(batch[j])]

\* datetime.fromisoformat(incident["timestamp"].replace('Z', '+00:00')): a
\* timestamp with an offset parses to an aware datetime, one without to a
\* naive one.
ReplaceZ(zone) == IF zone = "Z" THEN "+00:00" ELSE zone
FromIsoformat(ts) == [age |-> ts.age, aware |-> ReplaceZ(ts.zone) = "+00:00"]

\* recent_cutoff = datetime.utcnow() - timedelta(days=7): a naive datetime.
RecentCutoff == [age |-> RECENT_DAYS, aware |-> FALSE]

\* incident_time > recent_cutoff: comparing an aware datetime with a naive
\* one raises TypeError; otherwise the later one is the one of smaller age.
Comparable(a, b) == a.aware = b.aware
Later(a, b) == a.age < b.age

\* One turn of the second loop of _process_batch, for the j-th incident of
\* the batch. st holds the live documents, the counters, the positions
\* updated, the _update_firestore calls made and what was raised; raisesAt
\* and at name the write that fails ("doc" or "counter" of the at-th call),
\* if any. Nothing happens once something was raised.
UpdateIfRecent(st, batch, j, raisesAt, at) ==
    IF st.raised # "none" THEN st
    ELSE LET inc == batch[j]
             incident_time == FromIsoformat(inc.timestamp)
             nth == st.updates + 1
             withDoc == [st EXCEPT !.docs = [@ EXCEPT ![inc.id] = FirestoreData(inc)]]
         IN IF ~Comparable(incident_time, RecentCutoff)
            THEN [st EXCEPT !.raised = "TypeError"]
            ELSE IF ~Later(incident_time, RecentCutoff)
            THEN st
            ELSE IF raisesAt = "doc" /\ nth = at
            THEN [st EXCEPT !.raised = "doc"]
            ELSE IF raisesAt = "counter" /\ nth = at
            THEN [withDoc EXCEPT !.raised = "counter"]
            ELSE [withDoc EXCEPT !.counters = IncrementArea(@, inc),
                                 !.live = @ \cup {st.base + j},
                                 !.updates = nth]

\* The second loop of _process_batch over the incidents lo..hi of the batch,
\* in order: the turns of lo..mid, then, unless one of them raised, those of
\* mid+1..hi.
RECURSIVE UpdateRecent(_, _, _, _, _, _)
UpdateRecent(st, batch, lo, hi, raisesAt, at) ==
    IF lo > hi THEN st
    ELSE IF lo = hi THEN UpdateIfRecent(st, batch, lo, raisesAt, at)
    ELSE LET mid == (lo + hi) \div 2
             half == UpdateRecent(st, batch, lo, mid, raisesAt, at)
         IN IF half.raised # "none" THEN half
            ELSE UpdateRecent(half, batch, mid + 1, hi, raisesAt, at)

BulkFaults == {"embed", "archive", "rolling", "doc", "counter"}

\* A batch whose archive rows are loaded before its embeddings are asked for.
ArchiveLoaded_RowByRow(raisesAt) == raisesAt # "archive"

\* The archive load job of a batch runs and returns: _insert_to_bigquery is
\* called after the loop that embeds every incident of the batch, so not when
\* get_embeddings raised, and its first job is the archive's.
ArchiveLoaded(raisesAt) == raisesAt \notin {"embed", "archive"}

\* One turn of the loop of load_historical_data: the batch is cut, the
\* progress line logged and _process_batch called. raisesAt = "none": no
\* remote call fails; "embed": get_embeddings raises, nothing was written;
\* "archive", "rolling": that load job of _insert_to_bigquery raises; "doc",
\* "counter": that write of the at-th _update_firestore call raises. What
\* _process_batch raises leaves load_historical_data and the program, which
\* then exits with status 1.
ProcessBatch(raisesAt, at) ==
    /\ bulk_pc = "loop"
    /\ bulk_i < Len(bulk_input)
    /\ raisesAt \in {"doc", "counter"} \/ at = 1
    /\ LET batch == Batch(bulk_input, bulk_i)
           rows == BatchRows(batch)
           archived == ArchiveLoaded(raisesAt)
           inserted == archived /\ raisesAt # "rolling"
           st0 == [docs |-> fs_incidents, counters |-> area_stats, live |-> bulk_live,
                   updates |-> 0, raised |-> "none", base |-> bulk_i]
           st == IF inserted THEN UpdateRecent(st0, batch, 1, Len(batch), raisesAt, at)
                 ELSE [st0 EXCEPT !.raised = raisesAt]
       IN /\ raisesAt \in {"doc", "counter"} => st.raised = raisesAt
          /\ bulk_log' = Append(bulk_log,
                                [batch_num |-> (bulk_i \div batch_size) + 1,
                                 total_batches |-> (Len(bulk_input) \div batch_size) + 1,
                                 size |-> Len(batch)])
          /\ bulk_calls' = IF raisesAt = "embed" THEN bulk_calls
                           ELSE Append(bulk_calls, rows)
          /\ embeddings_table' = IF archived THEN LoadTableFromJson(embeddings_table, rows)
                                 ELSE embeddings_table
          /\ realtime_table' = IF inserted THEN LoadTableFromJson(realtime_table, rows)
                               ELSE realtime_table
          /\ fs_incidents' = st.docs
          /\ area_stats' = st.counters
          /\ bulk_live' = st.live
          /\ bulk_fault' = IF raisesAt = "none" THEN bulk_fault ELSE raisesAt
          /\ IF st.raised = "none"
             THEN /\ bulk_i' = bulk_i + batch_size
                  /\ UNCHANGED <<bulk_pc, bulk_exit>>
             ELSE /\ bulk_pc' = "raised"
                  /\ bulk_exit' = 1
                  /\ UNCHANGED bulk_i
    /\ UNCHANGED <<busVars, topicVars, workerVars, publish_result, simVars, orchVars,
                   flowVars, bulk_input>>

\* The loop is over: the closing line is logged, load_historical_data
\* returns and the program exits with status 0.
FinishLoad ==
    /\ bulk_pc = "loop"
    /\ bulk_i >= Len(bulk_input)
    /\ bulk_log' = Append(bulk_log, [loaded |-> Len(bulk_input)])
    /\ bulk_pc' = "done"
    /\ bulk_exit' = 0
    /\ UNCHANGED <<busVars, topicVars, storeVars, workerVars, publish_result, simVars,
                   orchVars, flowVars, bulk_input, bulk_i, bulk_calls, bulk_live,
                   bulk_fault>>

\* No line load_historical_data logs and nothing it returns names an incident.
FailedIdsReported == {}

\* ------------------------------------------------------------ specification
Init == PipelineInit /\ SimInit(<<>>) /\ OrchInit /\ FlowInit /\ BulkInit(<<>>)

\* The streaming pipeline with its producers.
Next ==
    \/ \E inc \in Incidents : publish_incident(inc, 0)
    \/ \E k \in MalformedKinds : ForeignPublish(k)
    \/ \E m \in 1..MaxPublished : Deliver(m)
    \/ \E m \in 1..MaxPublished : LeaseExpire(m)
    \/ \E w \in Workers, ok \in BOOLEAN : Embed(w, ok)
    \/ \E w \in Workers, r \in 0..2 : InsertToBigquery(w, r)
    \/ \E w \in Workers, r \in 0..2 : UpdateFirestore(w, r)
    \/ \E w \in Workers, r \in 0..2 : PublishAnalytics(w, r)
    \/ \E w \in Workers, ok \in BOOLEAN : SendNotifications(w, ok)
    \/ \E w \in Workers : Ack(w)

Spec == Init /\ [][Next]_vars

\* The two fan-out routers of the repository, each run on its own: the
\* producer side of the streaming pipeline (publish_incident) and the local
\* simulator. They are separate programs that share no state, so a behaviour
\* runs one of them.
Datasets == UNION {[1..n -> SimIncidents] : n \in 1..DatasetLen}
FanOutInit ==
    PipelineInit /\ OrchInit /\ FlowInit /\ BulkInit(<<>>) /\ \E ds \in Datasets : SimInit(ds)

ProducerIdle == incident_stream = <<>> /\ publish_result = "none"
SimulatorIdle == feed_index = 0

FanOutNext ==
    \/ \E inc \in RoutedIncidents, r \in 0..4 : SimulatorIdle /\ publish_incident(inc, r)
    \/ ProducerIdle /\ FeedIncident
    \/ \E ok \in BOOLEAN : SimGet(ok)
    \/ \E i \in 1..Len(pool) : AgentStart(i)
    \/ \E i \in 1..Len(pool), r \in 0..2 : AgentFinish(i, r)
    \/ \E t \in BOOLEAN : SimWait(t)
    \/ SimTaskDone

FanOutSpec == FanOutInit /\ [][FanOutNext]_vars

\* The agent orchestrator with what feeds it: the producer, publishing the
\* incidents that have agent tasks, another publisher of agent-tasks, and the
\* pipeline, which here handles one incident message at a time and fails only
\* at its first analytics publish (the message is then delivered again). The
\* two subscribers share nothing but the rolling table, which a handler reads
\* in one query: a callback of one starts while none of the other runs.
PipelineIdle == \A w \in Workers : pc[w] = "idle"
OrchestratorIdle == \A w \in AgentWorkers : task_pc[w] = "idle"

AgentNext ==
    \/ \E inc \in Incidents :
          /\ TriggeredTasks(inc) # <<>>
          /\ BagCardinality(agent_topic) + Len(TriggeredTasks(inc)) <= MaxTasks
          /\ publish_incident(inc, 0)
    \/ \E k \in ForeignTaskKinds : ForeignTask(k)
    \/ \E m \in 1..MaxPublished : PipelineIdle /\ OrchestratorIdle /\ Deliver(m)
    \/ \E w \in Workers : Embed(w, TRUE)
    \/ \E w \in Workers : InsertToBigquery(w, 0)
    \/ \E w \in Workers : UpdateFirestore(w, 0)
    \/ \E w \in Workers, r \in 0..1 : PublishAnalytics(w, r)
    \/ \E w \in Workers : SendNotifications(w, TRUE)
    \/ \E w \in Workers : Ack(w)
    \/ \E m \in TaskMessages : PipelineIdle /\ TaskDeliver(m)
    \/ \E w \in AgentWorkers : TaskLeaseExpire(w)
    \/ \E w \in AgentWorkers, r \in 0..5 : ProcessAgentTask(w, r)

AgentSpec == Init /\ [][AgentNext]_vars

\* The streaming pull of either subscriber, counting messages only.
FlowSpecInit ==
    /\ PipelineInit /\ SimInit(<<>>) /\ OrchInit /\ BulkInit(<<>>)
    /\ flow_sub \in Subscriptions
    /\ flow_backlog = 0
    /\ flow_outstanding = 0

FlowNext ==
    \/ FlowPublish
    \/ FlowDeliver
    \/ \E ack \in BOOLEAN : FlowSettle(ack)

FlowSpec == FlowSpecInit /\ [][FlowNext]_vars

\* The bulk loader on its own: the program run as load_historical on one of
\* the data files.
BulkSpecInit ==
    /\ PipelineInit /\ SimInit(<<>>) /\ OrchInit /\ FlowInit
    /\ \E incidents \in DataFiles : BulkInit(incidents)

BulkNext ==
    \/ \E raisesAt \in {"none"} \cup BulkFaults, at \in 1..MaxBulkFaultAt :
          ProcessBatch(raisesAt, at)
    \/ FinishLoad

BulkSpec == BulkSpecInit /\ [][BulkNext]_vars


\* The pipeline on well-formed messages while its environment recovers: the
\* remote calls fail and leases run out only as long as the bus has a
\* delivery to spare for the message that then has to be delivered again, the
\* bus keeps delivering what is neither acknowledged nor leased, and a
\* callback that is running goes on.
Undelivered == {m \in 1..Len(incident_stream) : m \notin acked /\ lease[m] = NoWorker}
Spare == MaxDeliveries - deliveries - Cardinality(Undelivered)
MayFail == Spare >= 1

CallbackStep(w) ==
    \/ Embed(w, TRUE)
    \/ InsertToBigquery(w, 0)
    \/ UpdateFirestore(w, 0)
    \/ PublishAnalytics(w, 0)
    \/ SendNotifications(w, TRUE)
    \/ Ack(w)

LiveNext ==
    \/ \E inc \in Incidents : MayFail /\ publish_incident(inc, 0)
    \/ \E m \in 1..MaxPublished : Deliver(m)
    \/ \E m \in 1..MaxPublished : MayFail /\ LeaseExpire(m)
    \/ \E w \in Workers : CallbackStep(w)
    \/ \E w \in Workers : MayFail /\ Embed(w, FALSE)
    \/ \E w \in Workers, r \in 1..2 : MayFail /\ InsertToBigquery(w, r)
    \/ \E w \in Workers, r \in 1..2 : MayFail /\ UpdateFirestore(w, r)
    \/ \E w \in Workers, r \in 1..2 : MayFail /\ PublishAnalytics(w, r)
    \/ \E w \in Workers : MayFail /\ SendNotifications(w, FALSE)

LiveFairness ==
    /\ WF_vars(\E m \in 1..MaxPublished : Deliver(m))
    /\ \A w \in Workers : WF_vars(CallbackStep(w))

LiveSpec == Init /\ [][LiveNext]_vars /\ LiveFairness


\* ================================================================== claims
\* Helpers of the claims.
Row(w) == PrepareBigqueryRow(Inc(w))
Handled(w) == cur[w] # NoMsg
WellFormed(w) == Msg(w).kind = "ok"
OkMessages == {m \in 1..Len(incident_stream) : incident_stream[m].kind = "ok"}
\* Every incident id was published at most once: a second row of an id can
\* then only come from a second delivery of the same message.
EachIdPublishedOnce ==
    \A m, n \in OkMessages : incident_stream[m].inc.id = incident_stream[n].inc.id => m = n
IdsPublishedIn(a) ==
    {incident_stream[m].inc.id : m \in {n \in OkMessages : incident_stream[n].inc.area_category = a}}
RECURSIVE MaxPriority(_)
MaxPriority(S) ==
    IF S = {} THEN 0
    ELSE LET x == CHOOSE y \in S : TRUE
             rest == MaxPriority(S \ {x})
         IN IF x > rest THEN x ELSE rest
\* The largest priority an id was published with in area a.
PriorityIn(id, a) ==
    MaxPriority({incident_stream[m].inc.priority_score :
                    m \in {n \in OkMessages : /\ incident_stream[n].inc.id = id
                                              /\ incident_stream[n].inc.area_category = a}})
RECURSIVE SumPriorityIn(_, _)
SumPriorityIn(ids, a) ==
    IF ids = {} THEN 0
    ELSE LET id == CHOOSE y \in ids : TRUE
         IN PriorityIn(id, a) + SumPriorityIn(ids \ {id}, a)

\* C1: delivering the same incident message twice leaves exactly one record of
\* the incident's id in the archive and exactly one in the rolling table: with
\* every id published once, no table ever holds two rows of an id, and an
\* acknowledged incident has exactly one row in each.
C1_OneRecordPerIncident ==
    EachIdPublishedOnce =>
        /\ \A id \in IncidentIds :
              RowCount(embeddings_table, id) <= 1 /\ RowCount(realtime_table, id) <= 1
        /\ \A w \in Workers :
              outcome[w] = "ack" =>
                  /\ RowCount(embeddings_table, Inc(w).id) = 1
                  /\ RowCount(realtime_table, Inc(w).id) = 1

\* C2: an area's incident_count and priority_sum are incremented at most once
\* per distinct incident id, whatever the number of deliveries.
C2_CountersOncePerIncident ==
    EachIdPublishedOnce =>
        \A a \in Areas :
            /\ area_stats[a].incident_count <= Cardinality(IdsPublishedIn(a))
            /\ area_stats[a].priority_sum <= SumPriorityIn(IdsPublishedIn(a), a)

\* C3: a delivery of an incident whose id is already in the record store in a
\* terminal status is acknowledged without the embedding call, without any
\* write and without any publish.
C3_TerminalDuplicateIsNoOp ==
    \A w \in Workers :
        sawTerminal[w] => eff[w] = {} /\ outcome[w] # "nack" /\ failedAt[w] = "none"

\* C4: a message whose body cannot be parsed into an incident is never nacked.
C4_MalformedNeverNacked ==
    \A w \in Workers : (Handled(w) /\ ~WellFormed(w)) => outcome[w] # "nack"

\* C5: when the embedding call fails, the delivery ends in a nack (never an
\* ack), the message is free for redelivery, and the delivery has produced no
\* row, live document, counter increment, analytics event or notification.
C5_EmbedFailureNacksWithoutEffects ==
    \A w \in Workers :
        failedAt[w] = "embed" =>
            /\ outcome[w] = "nack"
            /\ pc[w] = "idle"
            /\ lease[cur[w]] # w
            /\ eff[w] = {}
            /\ deliveries = 1 =>
                  /\ embeddings_table = EmptyBag /\ realtime_table = EmptyBag
                  /\ fs_incidents[Inc(w).id] = NoDoc
                  /\ area_stats[Inc(w).area_category].incident_count = 0
                  /\ analytics_topic = EmptyBag /\ notification_topic = EmptyBag

C5_Witness ==
    \E w \in Workers : failedAt[w] = "embed" /\ outcome[w] = "nack" /\ deliveries = 1

\* C6: a delivery is acknowledged only after its embedding, both table writes,
\* the live document, the counter increment and its publishes (both analytics
\* events, and the notification when the priority calls for one) were made,
\* and a delivery that failed in enrichment or persistence ends in a nack.
C6_AckOnlyAfterAllSteps ==
    \A w \in Workers :
        /\ outcome[w] = "ack" =>
              /\ failedAt[w] = "none"
              /\ {"embed", "archive", "rolling", "doc", "counter",
                  "analytics1", "analytics2"} \subseteq eff[w]
              /\ NeedsNotification(Inc(w)) => "notify" \in eff[w]
              /\ CopiesIn(Row(w), embeddings_table) >= 1
              /\ CopiesIn(Row(w), realtime_table) >= 1
              /\ fs_incidents[Inc(w).id] # NoDoc
              /\ area_stats[Inc(w).area_category].incident_count >= 1
              /\ \A k \in 1..2 : CopiesIn(AnalyticsEvents(Inc(w))[k], analytics_topic) >= 1
              /\ NeedsNotification(Inc(w)) =>
                    CopiesIn(NotificationData(Inc(w)), notification_topic) >= 1
        /\ failedAt[w] \in {"embed", "prepare", "archive", "rolling"} => outcome[w] = "nack"

C6_Witness ==
    \E w \in Workers : outcome[w] = "ack" /\ NeedsNotification(Inc(w))

\* C7: a delivery whose enrichment and persistence succeeded and whose
\* live-state update or publishing failed is still acknowledged.
C7_DashboardFailureStillAcks ==
    \A w \in Workers :
        failedAt[w] \in {"doc", "counter", "analytics", "notify"} => outcome[w] = "ack"

\* C8: when the archive write succeeds and the rolling-table write fails, the
\* archive row stays, the delivery ends in a nack that frees the message for
\* redelivery, and every delivery that writes the rolling table has written
\* the archive first (the persistence step is run again as a whole).
C8_NoRollbackRetriedAsWhole ==
    /\ \A w \in Workers :
          /\ failedAt[w] = "rolling" =>
                /\ "archive" \in eff[w]
                /\ CopiesIn(Row(w), embeddings_table) >= 1
                /\ outcome[w] = "nack"
                /\ lease[cur[w]] # w
          /\ "rolling" \in eff[w] => "archive" \in eff[w]
    /\ \A r \in BagToSet(realtime_table) :
          CopiesIn(r, realtime_table) <= CopiesIn(r, embeddings_table)

\* The one message was delivered twice to the same worker: the first delivery
\* wrote the archive only, the second wrote both tables and was acknowledged.
C8_Witness ==
    /\ Len(incident_stream) = 1
    /\ deliveries = 2
    /\ cur[2] = NoMsg
    /\ pc[1] = "idle" /\ outcome[1] = "ack"
    /\ CopiesIn(Row(1), embeddings_table) = 2
    /\ CopiesIn(Row(1), realtime_table) = 1

\* Helpers of the fan-out claims.
\* The agents the simulator submitted the incident at hand to, in order.
CurrentTasks == SelectSeq(pool, LAMBDA t : t.current)
CurrentAgents == [k \in 1..Len(CurrentTasks) |-> CurrentTasks[k].agent]
\* The simulator handles its first incident, and its notification agent has
\* returned: the notifications table holds what was logged for that incident.
FirstNotified ==
    /\ sim_pc = "wait" /\ tasks_done = 0
    /\ \E k \in 1..Len(CurrentTasks) :
          CurrentTasks[k].agent = "notification_agent" /\ CurrentTasks[k].state = "done"
\* publish_incident was called once with effect, and returned.
PublishedOne == Len(incident_stream) = 1 /\ publish_result = "ok"
EmergencyRow(inc) ==
    [incident_id |-> inc.id, notification_type |-> "emergency_blast",
     priority_score |-> inc.priority_score,
     departments |-> <<inc.assigned_department, "Emergency Services">>]
DepartmentAlertRow(inc) ==
    [incident_id |-> inc.id, notification_type |-> "department_alert",
     priority_score |-> inc.priority_score,
     departments |-> <<inc.assigned_department>>]

C10_MediumPriorityFanOut ==
    (sim_pc = "wait" /\ sim_cur.priority_score >= SIM_MEDIUM
                     /\ sim_cur.priority_score < SIM_HIGH) =>
        /\ CurrentAgents = <<"notification_agent", "resource_allocation_agent">>
        /\ FirstNotified => notifications = SetToBag({DepartmentAlertRow(sim_cur)})

\* C11: for an incident of priority below 6.0 the fan-out emits exactly one
\* resource-allocation task and no notification or trend-analysis task, in
\* the producer of the pipeline as in the simulator.
C11_LowPriorityFanOut ==
    /\ (PublishedOne /\ incident_stream[1].inc.priority_score < SIM_MEDIUM) =>
          agent_topic = SetToBag({[task_type |-> "resource_allocation",
                                   incident_id |-> incident_stream[1].inc.id,
                                   departments |-> <<>>]})
    /\ (sim_pc = "wait" /\ sim_cur.priority_score < SIM_MEDIUM) =>
          CurrentAgents = <<"resource_allocation_agent">>

\* C12: the routing thresholds are closed below and open above and checked
\* from the highest down: priority 8.0 is routed as high and 6.0 as medium,
\* 7.9 as medium and 5.9 as low, every priority gets exactly one of the three
\* agent lists, and publish_incident triggers its agent tasks from exactly
\* 8.0 on.
C12_ThresholdsClosedBelow ==
    /\ sim_pc = "wait" =>
          LET p == sim_cur.priority_score
              high == <<"notification_agent", "trend_analysis_agent",
                        "resource_allocation_agent", "news_insights_agent">>
              medium == <<"notification_agent", "resource_allocation_agent">>
              low == <<"resource_allocation_agent">>
          IN /\ CurrentAgents \in {high, medium, low}
             /\ CurrentAgents = high <=> p >= 80
             /\ CurrentAgents = medium <=> (p >= 60 /\ p < 80)
             /\ CurrentAgents = low <=> p < 60
    /\ PublishedOne =>
          (agent_topic # EmptyBag <=> incident_stream[1].inc.priority_score >= 80)

\* The simulator routed an incident of priority exactly 8.0 and now routes
\* one of priority exactly 6.0.
C12_Witness ==
    /\ sim_pc = "wait" /\ tasks_done = 1
    /\ sim_cur.priority_score = 60
    /\ Len(CurrentTasks) = 2
    /\ \E id \in IncidentIds :
          id # sim_cur.id /\ \E r \in sim_incidents : r.id = id /\ r.priority_score = 80

\* Helpers of C13.
\* A step in which publish_incident published an incident and returned.
PublishReturned ==
    /\ Len(incident_stream') = Len(incident_stream) + 1
    /\ incident_stream'[Len(incident_stream')].kind = "ok"
    /\ publish_result' = "ok"
JustPublished == incident_stream'[Len(incident_stream')].inc
\* The tasks of an incident, by the incident alone.
TasksByIncident(inc) ==
    IF inc.priority_score >= 80
    THEN SetToBag({[task_type |-> "notification_blast", incident_id |-> inc.id,
                    departments |-> <<inc.assigned_department>>],
                   [task_type |-> "trend_analysis", incident_id |-> inc.id,
                    departments |-> <<>>],
                   [task_type |-> "resource_allocation", incident_id |-> inc.id,
                    departments |-> <<>>]})
    ELSE EmptyBag

TaskOf(w) == task_cur[w][1]
TaskHandled(w) == task_cur[w] # NoTaskMsg /\ task_pc[w] = "idle"
\* The handler of the delivery was called and has returned or raised.
HandlerInvoked(w) == task_result[w] \in {"success", "error", "raised"}

\* C15: when the same incident was delivered twice to the pipeline, the
\* activity log ends with exactly one ActivityRecord for each fan-out task of
\* the incident that was handled and acknowledged.
C15_OneActivityRecordPerTask ==
    (Len(incident_stream) = 1 /\ deliveries = 2) =>
        \A m \in task_acked :
            (m[1].task_type \in WorkingHandlers
                /\ m[1].incident_id = incident_stream[1].inc.id) =>
                CopiesIn(ActivityRecord(m[1]), fs_agent_activities) = 1

\* C16: a task whose handler reports failure (an error status or an
\* exception) is nacked, and a task is acked only when its handler reports
\* success.
C16_FailureNacksSuccessAcks ==
    \A w \in AgentWorkers :
        /\ task_result[w] \in {"error", "raised"} => task_outcome[w] = "nack"
        /\ task_outcome[w] = "ack" => task_result[w] = "success"

\* C17: a task whose task_type the dispatcher has no agent for is nacked, is
\* never acknowledged, and no handler is called for it (its delivery writes no
\* ActivityRecord).
C17_UnknownTaskNacked ==
    /\ \A w \in AgentWorkers :
          (TaskHandled(w) /\ TaskOf(w).task_type = "unknown_kind") =>
              /\ task_outcome[w] = "nack"
              /\ task_result[w] = "no_agent"
              /\ task_logged[w] = 0
              /\ ~task_holds[w]
    /\ \A m \in task_acked : m[1].task_type # "unknown_kind"
    /\ fs_agent_activities # EmptyBag =>
          \E m \in TaskMessages : m[1].task_type \in WorkingHandlers

C17_Witness ==
    \E w \in AgentWorkers :
        /\ TaskHandled(w) /\ TaskOf(w).task_type = "unknown_kind"
        /\ task_outcome[w] = "nack"
        /\ task_deliveries = 2
        /\ \A v \in AgentWorkers : TaskHandled(v) => TaskOf(v).task_type = "unknown_kind"

\* C18: every invocation of a task handler writes exactly one ActivityRecord,
\* whether the handler succeeds or fails.
C18_OneRecordPerInvocation ==
    \A w \in AgentWorkers : HandlerInvoked(w) => task_logged[w] = 1

\* C19: a handler that runs past the timeout of 10 s is treated as failed and
\* its task is delivered again instead of being counted as done: an incident
\* the loop has left with a handler still running is on the queue again, or
\* is the incident at hand again.
C19_TimeoutRedelivers ==
    \A i \in 1..Len(pool) :
        ~pool[i].current =>
            \/ Has(incident_queue, pool[i].inc)
            \/ sim_pc = "wait" /\ sim_cur = pool[i].inc

\* C20: at every moment the messages delivered and not yet acked or nacked
\* are at most the flow-control cap of the subscription: 100 for the incident
\* subscription, 50 for the agent subscription.
C20_OutstandingWithinCap ==
    /\ flow_sub = "incident-worker" => flow_outstanding <= 100
    /\ flow_sub = "agent-worker" => flow_outstanding <= 50

\* The cap of the incident subscription holds a waiting message back.
C20_Witness ==
    flow_sub = "incident-worker" /\ flow_outstanding = 100 /\ flow_backlog > 0

\* C14: the fan-out tasks of an incident are published only after the
\* incident was enriched and persisted: no task of an incident id is on the
\* agent topic while the rolling table holds no record of that id.
C14_FanOutAfterPersistence ==
    \A t \in BagToSet(agent_topic) :
        t.incident_id \in IncidentIds => RowCount(realtime_table, t.incident_id) >= 1

\* Helpers of C21: the workers whose delivery completed its increment in area a.
Incremented(a) == {w \in Workers : Handled(w) /\ "counter" \in eff[w] /\ Inc(w).area_category = a}
RECURSIVE SumPriorityOf(_)
SumPriorityOf(ws) ==
    IF ws = {} THEN 0
    ELSE LET w == CHOOSE v \in ws : TRUE
         IN Inc(w).priority_score + SumPriorityOf(ws \ {w})
\* C21: under concurrent processing of incidents of one area no counter
\* update is lost: while every delivery so far is the one its worker handles
\* or handled last, the area's incident_count is the number of deliveries that
\* completed their increment and priority_sum is the sum of their priorities.
C21_NoLostCounterUpdate ==
    deliveries = Cardinality({w \in Workers : Handled(w)}) =>
        \A a \in Areas :
            /\ area_stats[a].incident_count = Cardinality(Incremented(a))
            /\ area_stats[a].priority_sum = SumPriorityOf(Incremented(a))

\* Two incidents of one area were handled at the same time and both
\* increments are in the counters.
C21_Witness ==
    /\ deliveries = 2
    /\ \A w \in Workers : Handled(w) /\ "counter" \in eff[w]
    /\ Inc(1).id # Inc(2).id
    /\ Inc(1).area_category = Inc(2).area_category
    /\ area_stats[Inc(1).area_category].incident_count = 2

\* C27: every record in the archive or in the rolling table carries the
\* time of the event and the processing (stream) timestamp.
C27_RowsCarryBothTimestamps ==
    \A r \in BagToSet(embeddings_table) \cup BagToSet(realtime_table) :
        {"timestamp", "stream_timestamp"} \subseteq DOMAIN r

\* C28: the work items of one incident complete independently: the loop
\* leaves an incident only by task_done, after it has waited for every agent
\* submitted for it, whether or not one of them failed or timed out.
C28_AgentsAwaitedIndependently ==
    [][(sim_pc = "wait" /\ sim_pc' = "get") =>
          /\ tasks_done' = tasks_done + 1
          /\ \A i \in 1..Len(pool) :
                pool[i].current => pool[i].waited \in {"completed", "failed"}]_vars

\* The first agent of an incident failed, every later one was waited for and
\* completed.
C28_Witness ==
    /\ sim_pc = "wait"
    /\ Len(CurrentTasks) >= 2
    /\ CurrentTasks[1].waited = "failed"
    /\ \A k \in 2..Len(CurrentTasks) : CurrentTasks[k].waited = "completed"

\* Helpers of C29: the entries of the dataset taken from the queue so far,
\* and the last of them that carries the id.
Dequeued == feed_index - Len(incident_queue) 
EntriesOf(id) == {k \in 1..Dequeued : dataset[k].id = id}
LastEntryOf(id) == CHOOSE k \in EntriesOf(id) : \A j \in EntriesOf(id) : j <= k

\* C29: the incidents table of the simulator is an upsert keyed by id: it
\* never holds two rows of one id, and when no insert failed it holds, for
\* each id inserted so far, the values of the last insert of that id.
C29_UpsertKeyedById ==
    /\ \A r1, r2 \in sim_incidents : r1.id = r2.id => r1 = r2
    /\ \A r \in sim_incidents :
          \E k \in EntriesOf(r.id) : r.priority_score = dataset[k].priority_score
    /\ sim_faults = 0 =>
          \A id \in IncidentIds :
              IF EntriesOf(id) = {}
              THEN \A r \in sim_incidents : r.id # id
              ELSE \E r \in sim_incidents :
                      /\ r.id = id
                      /\ r.priority_score = dataset[LastEntryOf(id)].priority_score
                      /\ r.assigned_department = dataset[LastEntryOf(id)].assigned_department

\* The same id was inserted twice with different values.
C29_Witness ==
    /\ Dequeued = 2 /\ sim_faults = 0
    /\ dataset[1].id = dataset[2].id
    /\ dataset[1].priority_score # dataset[2].priority_score
    /\ stats.incidents_processed = 2

\* C30: every invocation of process_incident_stream and of process_agent_task
\* ends with exactly one of ack and nack: a callback that has returned has
\* called one of them, a callback still running has called none.
C30_ExactlyOneAckOrNack ==
    /\ \A w \in Workers :
          /\ (Handled(w) /\ pc[w] = "idle") => outcome[w] \in {"ack", "nack"}
          /\ pc[w] # "idle" => outcome[w] = "none"
    /\ \A w \in AgentWorkers :
          /\ TaskHandled(w) => task_outcome[w] \in {"ack", "nack"}
          /\ task_pc[w] # "idle" => task_outcome[w] = "none"

\* A callback of the pipeline ended in a nack, and callbacks of the
\* orchestrator ended one in an ack and one in a nack.
C30_Witness ==
    /\ \E w \in Workers : Handled(w) /\ pc[w] = "idle" /\ outcome[w] = "nack"
    /\ \E v, u \in AgentWorkers :
          /\ TaskHandled(v) /\ task_outcome[v] = "ack"
          /\ TaskHandled(u) /\ task_outcome[u] = "nack"

\* Helpers of C22..C26: the batches a data file has, the lines logged for a
\* batch, whether the load has ended, and the incidents handed to a
\* persistence call so far.
NumBatches == (Len(bulk_input) + batch_size - 1) \div batch_size
BatchLines == {l \in 1..Len(bulk_log) : "batch_num" \in DOMAIN bulk_log[l]}
LoadEnded == bulk_pc \in {"done", "raised"}
HandedOver == Min(Len(bulk_calls) * batch_size, Len(bulk_input))

\* C22: the bulk loader cuts the input into consecutive batches of at most
\* batch_size incidents and makes one bulk persistence call per batch with
\* exactly the rows of that batch: the c-th call carries the rows of the
\* incidents at positions (c-1)*batch_size + 1 onwards, and when the load has
\* returned every incident lies in exactly one call.
C22_ConsecutiveBatches ==
    /\ \A c \in 1..Len(bulk_calls) :
          /\ Len(bulk_calls[c]) \in 1..batch_size
          /\ \A j \in 1..Len(bulk_calls[c]) :
                /\ (c - 1) * batch_size + j <= Len(bulk_input)
                /\ bulk_calls[c][j] =
                       PrepareBigqueryRow(bulk_input[(c - 1) * batch_size + j])
    /\ Cardinality(BatchLines) >= Len(bulk_calls)
    /\ bulk_pc = "done" =>
          /\ Len(bulk_calls) = Cardinality(BatchLines)
          /\ \A k \in 1..Len(bulk_input) :
                Cardinality({c \in 1..Len(bulk_calls) :
                                /\ (c - 1) * batch_size < k
                                /\ k <= (c - 1) * batch_size + Len(bulk_calls[c])}) = 1

\* A load of three batches, the last one shorter than batch_size, has returned.
C22_Witness ==
    /\ bulk_pc = "done"
    /\ Len(bulk_calls) > 2
    /\ Len(bulk_calls[1]) = batch_size
    /\ Len(bulk_calls[Len(bulk_calls)]) < batch_size

\* C23: a failure in one batch never aborts the load: when the loader has
\* ended, every batch of the input was handed to _process_batch.
C23_FailureDoesNotAbort == LoadEnded => Cardinality(BatchLines) = NumBatches

\* Helper of C24: the ids of the incidents of the batch that failed.
FailedBatchIds ==
    IF bulk_pc = "raised"
    THEN {Batch(bulk_input, bulk_i)[j].id : j \in 1..Len(Batch(bulk_input, bulk_i))}
    ELSE {}

\* C24: at the end of a bulk load the loader reports the ids of the incidents
\* of the batches that failed, and the exit code is 0 iff it reports none.
C24_FailedIdsReported ==
    LoadEnded =>
        /\ FailedIdsReported = FailedBatchIds
        /\ bulk_exit = 0 <=> FailedIdsReported = {}

\* Helper of C25: what process_incident_stream, called once for each of the
\* incidents lo..hi of the input, leaves in a table that was empty: one load
\* job of one row each, and load jobs append, so the rows of lo..mid and
\* those of mid+1..hi.
RECURSIVE ProcessedOneByOne(_, _, _)
ProcessedOneByOne(incidents, lo, hi) ==
    IF lo > hi THEN EmptyBag
    ELSE IF lo = hi
    THEN LoadTableFromJson(EmptyBag, <<PrepareBigqueryRow(incidents[lo])>>)
    ELSE LET mid == (lo + hi) \div 2
         IN ProcessedOneByOne(incidents, lo, mid)
                (+) ProcessedOneByOne(incidents, mid + 1, hi)

\* C25: when no remote call fails, a bulk load leaves the archive and the
\* rolling table with the contents that processing the same incidents one by
\* one through process_incident_stream leaves.
C25_BatchEquivalence ==
    (LoadEnded /\ bulk_fault = "none") =>
        /\ embeddings_table = ProcessedOneByOne(bulk_input, 1, Len(bulk_input))
        /\ realtime_table = ProcessedOneByOne(bulk_input, 1, Len(bulk_input))

\* C26: when no remote call fails, every incident of a batch that was
\* persisted has had its live document upserted and its area counters
\* incremented iff its event timestamp lies within the last 7 days.
C26_LiveStateIffRecent ==
    bulk_fault = "none" =>
        \A k \in 1..HandedOver :
            k \in bulk_live <=> bulk_input[k].timestamp.age < RECENT_DAYS

\* C39: the number of batches load_historical_data announces in a progress
\* line is the number of batches it processes for the input, ceil(N / B), so
\* that the last batch is announced as batch_num = total_batches.
C39_AnnouncedBatchCount ==
    \A l \in BatchLines : bulk_log[l].total_batches = NumBatches

\* C36: a batch is all-or-nothing with respect to embedding failures: when
\* get_embeddings has raised in a batch, the tables hold the rows of the
\* batches before it and no row of that batch, and no incident of that batch
\* has had a live-state update.
C36_EmbeddingFailureWritesNothing ==
    bulk_fault = "embed" =>
        /\ bulk_pc = "raised"
        /\ embeddings_table = ProcessedOneByOne(bulk_input, 1, bulk_i)
        /\ realtime_table = ProcessedOneByOne(bulk_input, 1, bulk_i)
        /\ \A k \in bulk_live : k <= bulk_i

\* The embedding of the second batch failed after the first batch was loaded.
C36_Witness ==
    /\ bulk_fault = "embed"
    /\ bulk_i = batch_size
    /\ Len(bulk_input) > batch_size
    /\ embeddings_table # EmptyBag
    /\ bulk_live # {}

\* C34: publish_incident publishes agent tasks only in a call that has
\* published the incident itself, and only tasks of that incident; a call
\* whose incident publish fails publishes no task and raises, and a call that
\* returns has published the incident and all its tasks.
C34_TasksOnlyAfterIncidentPublished ==
    [][/\ agent_topic' # agent_topic =>
             /\ Len(incident_stream') = Len(incident_stream) + 1
             /\ \A t \in BagToSet(agent_topic') :
                    CopiesIn(t, agent_topic') > CopiesIn(t, agent_topic) =>
                        t.incident_id = incident_stream'[Len(incident_stream')].inc.id
       /\ (publish_result' # publish_result /\ incident_stream' = incident_stream) =>
             /\ publish_result' = "raised"
             /\ agent_topic' = agent_topic
       /\ (publish_result' = "ok" /\ <<incident_stream, publish_result>>' #
                                        <<incident_stream, publish_result>>) =>
             /\ Len(incident_stream') = Len(incident_stream) + 1
             /\ agent_topic' = agent_topic (+)
                    SeqToBag(TriggeredTasks(incident_stream'[Len(incident_stream')].inc))
      ]_vars

\* The first call of publish_incident failed at the incident publish.
C34_Witness ==
    /\ publish_result = "raised"
    /\ incident_stream = <<>>
    /\ agent_topic = EmptyBag

\* C35: the ui_status of a live document agrees with the lifecycle of the
\* incident: it is 'resolved' exactly when the event_status written with it
\* is a terminal status, and 'active' for every other status.
C35_UiStatusAgreesWithLifecycle ==
    \A id \in IncidentIds :
        fs_incidents[id] # NoDoc =>
            /\ fs_incidents[id].ui_status \in {"active", "resolved"}
            /\ fs_incidents[id].ui_status = "resolved" <=>
                   fs_incidents[id].event_status \in TerminalStatuses

\* C38: the notifications_sent count in an activity record of the
\* simulator's notification agent is the number of notification rows the
\* agent logged for that incident: one when a row of the incident is in the
\* table, zero when none is.
C38_NotificationsSentMatchesLog ==
    \A act \in BagToSet(agent_activities) :
        act.agent_name = "notification_agent" =>
            act.notifications_sent =
                (IF \E n \in BagToSet(notifications) : n.incident_id = act.incident_id
                 THEN 1 ELSE 0)

\* C37: in the simulator the agents of the next incident are submitted only
\* when every future submitted for the incident before it was waited for and
\* has completed, failed or run into the wait timeout (the only tasks then
\* left in the pool are those a wait timed out on), and at most max_workers
\* agent invocations run at the same time.
C37_SubmitAfterWaitsAtMostFourRunning ==
    /\ Cardinality(Running) <= max_workers
    /\ sim_pc = "get" =>
          \A i \in 1..Len(pool) :
              /\ ~pool[i].current
              /\ pool[i].waited = "failed"
              /\ pool[i].state \in {"pending", "running"}
    /\ \A i \in 1..Len(pool) : ~pool[i].current => pool[i].waited = "failed"

\* An agent of the first incident outlived its wait, and with the agents of
\* the second incident every worker thread is busy while a task still waits
\* for one.
C37_Witness ==
    /\ Cardinality(Running) = max_workers
    /\ \E i \in Running : ~pool[i].current
    /\ \E i \in 1..Len(pool) : pool[i].current /\ pool[i].state = "pending"

\* Helpers of C32: the effects of a delivery in the order the claim gives
\* them, the first n of them, and how many of them a delivery that failed at
\* a step can have had.
EffectOrder ==
    <<"embed", "archive", "rolling", "doc", "counter", "analytics1", "analytics2",
      "notify">>
FirstEffects(n) == {EffectOrder[k] : k \in 1..n}
EffectsBefore(step) ==
    CASE step \in {"parse", "embed"} -> {0}
      [] step \in {"prepare", "archive"} -> {1}
      [] step = "rolling" -> {2}
      [] step = "doc" -> {3}
      [] step = "counter" -> {4}
      [] step = "analytics" -> {5, 6}
      [] step = "notify" -> {7}

\* C32: within one delivery the effects occur in the order embedding, archive
\* insert, rolling insert, live document, area counter, analytics publishes,
\* notification publish, ack: at every moment the effects the delivery has had
\* are the first n of that order, the ack comes after all of them, and a
\* delivery in which a step failed has the effects before that step and none
\* after it.
C32_EffectsInFixedOrder ==
    \A w \in Workers :
        Handled(w) =>
            /\ \E n \in 0..Len(EffectOrder) : eff[w] = FirstEffects(n)
            /\ "notify" \in eff[w] => NeedsNotification(Inc(w))
            /\ outcome[w] = "ack" =>
                  eff[w] = FirstEffects(IF NeedsNotification(Inc(w)) THEN 8 ELSE 7)
            /\ failedAt[w] # "none" =>
                  /\ outcome[w] = "nack"
                  /\ \E n \in EffectsBefore(failedAt[w]) : eff[w] = FirstEffects(n)

\* A delivery failed at the counter increment after the four effects before it.
C32_Witness ==
    \E w \in Workers :
        /\ Handled(w) /\ failedAt[w] = "counter"
        /\ eff[w] = {"embed", "archive", "rolling", "doc"}
        /\ pc[w] = "idle"

\* C31: the notification_blast task of a published incident of priority 8.0
\* or more results in an emergency notification on the notification topic
\* under every interleaving of the dispatcher with the pipeline: once the
\* task is acknowledged, which ends its deliveries, and no callback of the
\* dispatcher runs, the notification of its incident has been published, when
\* no remote call of a handler failed.
C31_BlastTaskNotifies ==
    (OrchestratorIdle /\ task_faults = 0) =>
        \A m \in task_acked :
            m[1].task_type = "notification_blast" =>
                \E n \in BagToSet(notification_topic) :
                    n.type = "emergency_blast" /\ n.incident_id = m[1].incident_id

\* C33: every well-formed incident message is eventually acknowledged, when
\* the embedding, store and bus calls eventually succeed and the bus keeps
\* redelivering the messages that were nacked.
C33_EventuallyAcked ==
    \A m \in 1..MaxPublished : (Len(incident_stream) >= m) ~> (m \in acked)

\* A message was nacked at its first delivery and acknowledged at its second,
\* both on the first worker thread.
C33_Witness ==
    /\ Len(incident_stream) = 1
    /\ deliveries = MaxDeliveries
    /\ 1 \in acked
    /\ \A w \in Workers : Handled(w) <=> w = 1

====
